---- MODULE Spec2Model ----
(***************************************************************************)
(* A model of apps/beeswax/src/beeswax/server/hive_server2_lib.py: the     *)
(* HiveServer2 client of Hue.  Clients share the session store and the     *)
(* remote server; each client runs one operation at a time, and an         *)
(* operation is a sequence of calls of HiveServerClient.call, each of      *)
(* which reads the store, may open a session, and invokes an RPC.          *)
(***************************************************************************)
EXTENDS Integers, Sequences, FiniteSets, TLC

VARIABLES
  store,     \* the Session table: a sequence of Session records, oldest first
  sessions,  \* the server: sessions[h] is the (user, service) that opened session h
  lastOpened,\* lastOpened[key]: the session handle of the open_session of that key
             \* that completed last, or None
  settings,  \* the server: settings[h] is what the statements executed in session h
             \* have left in it (execution mode, configuration) and whether it is closed
  cl         \* cl[c]: the state of client c (its operation, locals, position)

vars == <<store, sessions, lastOpened, settings, cl>>

(***************************************************************************)
(* Bounds of the model.                                                    *)
(***************************************************************************)
MaxOps == 3       \* operations one client starts in a run
MaxRaceOps == 2   \* calls each of two racing clients makes
MaxRows == 2      \* rows of one fetched page
MaxParts == 3     \* largest max_parts passed to get_partitions
MaxSessions == 3  \* the server stops reporting stale sessions once it has opened this many
MaxTraversals == 2  \* traversals of one result table's rows()
MaxCols == 3        \* columns of a schema and of a row looked up by name
MaxSharedOps == 1   \* operations each of two clients of one session starts
MaxClientOps == 1   \* operations the client starts when their history is kept
MaxRenewOps == 3    \* operations of a client that closes its session

Clients == {"c1", "c2"}
Users == {"u1", "u2"}
ServerNames == {"beeswax", "impala", "hiveserver2"}

(***************************************************************************)
(* Optional values: Python's None is the empty sequence, a value x is <<x>>*)
(***************************************************************************)
None == <<>>
Some(x) == <<x>>
IsNone(o) == o = <<>>
The(o) == o[1]

(***************************************************************************)
(* TStatusCode                                                             *)
(***************************************************************************)
SUCCESS_STATUS == "SUCCESS_STATUS"
SUCCESS_WITH_INFO_STATUS == "SUCCESS_WITH_INFO_STATUS"
STILL_EXECUTING_STATUS == "STILL_EXECUTING_STATUS"
ERROR_STATUS == "ERROR_STATUS"
INVALID_HANDLE_STATUS == "INVALID_HANDLE_STATUS"

TStatusCode == {SUCCESS_STATUS, SUCCESS_WITH_INFO_STATUS, STILL_EXECUTING_STATUS,
                ERROR_STATUS, INVALID_HANDLE_STATUS}

(***************************************************************************)
(* Strings are sequences of characters, so that re.search can be computed. *)
(***************************************************************************)
LowerMap ==
  [A |-> "a", B |-> "b", C |-> "c", D |-> "d", E |-> "e", F |-> "f", G |-> "g",
   H |-> "h", I |-> "i", J |-> "j", K |-> "k", L |-> "l", M |-> "m", N |-> "n",
   O |-> "o", P |-> "p", Q |-> "q", R |-> "r", S |-> "s", T |-> "t", U |-> "u",
   V |-> "v", W |-> "w", X |-> "x", Y |-> "y", Z |-> "z"]

\* re.I: characters are compared with their case folded
Lower(ch) == IF ch \in DOMAIN LowerMap THEN LowerMap[ch] ELSE ch

\* the search without re.I
SearchCaseSensitive(pat, s) ==
  \E i \in 1..(Len(s) - Len(pat) + 1) :
    \A j \in 1..Len(pat) : s[i + j - 1] = pat[j]

\* re.search(pat, s, re.I) for a pattern that is a plain literal
SearchI(pat, s) ==
  \E i \in 1..(Len(s) - Len(pat) + 1) :
    \A j \in 1..Len(pat) : Lower(s[i + j - 1]) = Lower(pat[j])

PatInvalidSessionHandle ==
  <<"I","n","v","a","l","i","d"," ","S","e","s","s","i","o","n","H","a","n","d","l","e">>
PatInvalidSession ==
  <<"I","n","v","a","l","i","d"," ","s","e","s","s","i","o","n">>

\* error messages a response may carry
MsgInvalidSessionHandle ==
  <<"I","n","v","a","l","i","d"," ","S","e","s","s","i","o","n","H","a","n","d","l","e",":"," ","7">>
MsgInvalidSessionUpper ==
  <<"E","R","R",":"," ","I","N","V","A","L","I","D"," ","S","E","S","S","I","O","N">>
MsgInvalidHandle ==
  <<"I","n","v","a","l","i","d"," ","h","a","n","d","l","e">>
MsgSessionInvalid ==
  <<"s","e","s","s","i","o","n"," ","i","n","v","a","l","i","d">>

ErrorMessages ==
  {None, Some(<<>>), Some(MsgInvalidSessionHandle), Some(MsgInvalidSessionUpper),
   Some(MsgInvalidHandle), Some(MsgSessionInvalid)}

\* call, lines 297-298: the response reports a stale session
IsStaleSession(res) ==
  /\ res.status.statusCode = ERROR_STATUS
  /\ LET msg == IF IsNone(res.status.errorMessage) THEN <<>> ELSE The(res.status.errorMessage)
     IN  SearchI(PatInvalidSessionHandle, msg) \/ SearchI(PatInvalidSession, msg)

\* the status check with STILL_EXECUTING_STATUS left out of the accepted codes
BadStatusStillExecuting(status, res) ==
  /\ ~IsNone(status)
  /\ res.status.statusCode \notin {SUCCESS_STATUS, SUCCESS_WITH_INFO_STATUS}

\* call, lines 307-308: the status check that makes call raise
BadStatus(status, res) ==
  /\ ~IsNone(status)
  /\ res.status.statusCode \notin
       {SUCCESS_STATUS, SUCCESS_WITH_INFO_STATUS, STILL_EXECUTING_STATUS}

(***************************************************************************)
(* The session store (beeswax.models.Session, a table shared by every      *)
(* client).  A Session record keeps the encoded secret and guid of the     *)
(* server's session id.                                                    *)
(***************************************************************************)
\* HiveServerQueryHandle(secret, guid).get(): the pair, encoded for storage
encode(x) == <<"b64", x>>
decode(e) == e[2]

\* Session.get_handle(): the TSessionHandle a stored record stands for
get_handle(session) ==
  [sessionId |-> [secret |-> decode(session.secret), guid |-> decode(session.guid)]]

SameKey(s, owner, application) == s.owner = owner /\ s.application = application

\* Session.objects.get_session(user, application): the record of that key
\* written last, or None
get_session(st, owner, application) ==
  LET idx == {i \in 1..Len(st) : SameKey(st[i], owner, application)}
  IN  IF idx = {} THEN None
      ELSE Some(st[CHOOSE i \in idx : \A j \in idx : j <= i])

\* a create that adds the record and keeps the prior ones
create_append(st, rec) == Append(st, rec)

\* Session.objects.create(...): persists rec, replacing any prior record of its key
create(st, rec) ==
  Append(SelectSeq(st, LAMBDA s : ~SameKey(s, rec.owner, rec.application)), rec)

(***************************************************************************)
(* The server's side of OpenSession: a fresh session id per RPC.           *)
(***************************************************************************)
OpenSessionResp(h) ==
  [status |-> [statusCode |-> SUCCESS_STATUS, errorMessage |-> None],
   sessionHandle |-> [sessionId |-> [secret |-> h, guid |-> h]],
   serverProtocolVersion |-> "V1"]

\* a session as the server opens it: no statement has set anything in it yet
NewSettings == [blocking |-> "default", configuration |-> {}, closed |-> FALSE]

\* open_session, lines 272-282: the Session record built from the response
SessionRecord(user, server_name, res) ==
  [owner |-> user,
   application |-> server_name,
   status_code |-> res.status.statusCode,
   secret |-> encode(res.sessionHandle.sessionId.secret),
   guid |-> encode(res.sessionHandle.sessionId.guid),
   server_protocol_version |-> res.serverProtocolVersion]

\* an open_session that builds the Session record and does not persist it
open_session_unsaved(st, user, server_name, res) == st

\* open_session, lines 277-282: the store after the record is persisted
open_session_store(st, user, server_name, res) ==
  create(st, SessionRecord(user, server_name, res))

(***************************************************************************)
(* Wire values.  A TColumnValue has one optional field per variant; a      *)
(* populated field holds a record with the payload in .value.  A payload   *)
(* is written as the text of the Python value it stands for.               *)
(***************************************************************************)
NoValue ==
  [boolVal |-> None, byteVal |-> None, i16Val |-> None, i32Val |-> None,
   i64Val |-> None, doubleVal |-> None, stringVal |-> None]

I32(v) == [NoValue EXCEPT !.i32Val = Some([value |-> v])]
Str(v) == [NoValue EXCEPT !.stringVal = Some([value |-> v])]
Bool(v) == [NoValue EXCEPT !.boolVal = Some([value |-> v])]

\* a val that tests the variants from stringVal back to boolVal
val_reversed(cv) ==
  IF ~IsNone(cv.stringVal) THEN Some(The(cv.stringVal).value)
  ELSE IF ~IsNone(cv.doubleVal) THEN Some(The(cv.doubleVal).value)
  ELSE IF ~IsNone(cv.i64Val) THEN Some(The(cv.i64Val).value)
  ELSE IF ~IsNone(cv.i32Val) THEN Some(The(cv.i32Val).value)
  ELSE IF ~IsNone(cv.i16Val) THEN Some(The(cv.i16Val).value)
  ELSE IF ~IsNone(cv.byteVal) THEN Some(The(cv.byteVal).value)
  ELSE IF ~IsNone(cv.boolVal) THEN Some(The(cv.boolVal).value)
  ELSE None

\* HiveServerTColumnValue.val: the payload of the first populated variant, or None
val(cv) ==
  IF ~IsNone(cv.boolVal) THEN Some(The(cv.boolVal).value)
  ELSE IF ~IsNone(cv.byteVal) THEN Some(The(cv.byteVal).value)
  ELSE IF ~IsNone(cv.i16Val) THEN Some(The(cv.i16Val).value)
  ELSE IF ~IsNone(cv.i32Val) THEN Some(The(cv.i32Val).value)
  ELSE IF ~IsNone(cv.i64Val) THEN Some(The(cv.i64Val).value)
  ELSE IF ~IsNone(cv.doubleVal) THEN Some(The(cv.doubleVal).value)
  ELSE IF ~IsNone(cv.stringVal) THEN Some(The(cv.stringVal).value)
  ELSE None

\* HiveServerTRow.fields: every column of the row decoded, in wire order
fields(row) == [i \in 1..Len(row.colVals) |-> val(row.colVals[i])]

\* rows the server sends for a user's statement
RowA == [colVals |-> <<I32(<<"7">>), Str(<<"a","b">>)>>]
RowB == [colVals |-> <<NoValue, [Bool(<<"T","r","u","e">>) EXCEPT !.stringVal = Some([value |-> <<"x">>])]>>]
\* rows of SHOW PARTITIONS and of GetTables
RowP1 == [colVals |-> <<Str(<<"d","=","1">>)>>]
RowP2 == [colVals |-> <<Str(<<"d","=","2">>)>>]
RowT == [colVals |-> <<Str(<<"t","1">>), Str(<<"T","A","B","L","E">>), NoValue>>]
RowD == [colVals |-> <<Str(<<"c">>), Str(<<"i","n","t">>), NoValue>>]
\* rows of GetSchemas: the name of the database, and its catalog
RowS1 == [colVals |-> <<Str(<<"d","b","1">>), Str(<<>>)>>]
RowS2 == [colVals |-> <<Str(<<"d","b","2">>), NoValue>>]

RECURSIVE SeqsUpTo(_, _)
SeqsUpTo(S, n) ==
  IF n = 0 THEN {<<>>}
  ELSE LET shorter == SeqsUpTo(S, n - 1)
       IN  shorter \cup {Append(p, x) : p \in shorter, x \in S}

\* statements the client sends
SET_TRUE == "SET hive.server2.blocking.query=true"
SET_FALSE == "SET hive.server2.blocking.query=false"
DESCRIBE == "DESCRIBE EXTENDED t"
SHOW_PARTITIONS == "SHOW PARTITIONS t"
USER_STMT == "SELECT"
\* a resource of query.get_configuration(), and the statement it strips to
CONF_RAW == " SET mapred.reduce.tasks=1 "
CONF_STMT == "SET mapred.reduce.tasks=1"

\* execute_async_query, line 379: resource.strip()
strip(resource) == IF resource = CONF_RAW THEN CONF_STMT ELSE resource

\* TFetchOrientation
FETCH_NEXT == "FETCH_NEXT"
FETCH_FIRST == "FETCH_FIRST"

\* the pages the server may return when the results of an operation are fetched
Pages(of) ==
  CASE of = SHOW_PARTITIONS -> SeqsUpTo({RowP1, RowP2}, MaxRows)
    [] of = "GetTables" -> {<<>>, <<RowT>>}
    [] of = "GetSchemas" -> SeqsUpTo({RowS1, RowS2}, MaxRows)
    [] of = DESCRIBE -> {<<RowD>>}
    [] of = USER_STMT -> SeqsUpTo({RowA, RowB}, MaxRows)
    [] OTHER -> {<<>>}

\* whether the server's operation yields a result set
HasResultSet(of) ==
  CASE of \in {SET_TRUE, SET_FALSE, USER_STMT} -> BOOLEAN
    [] OTHER -> {TRUE}

\* the hasMoreRows flag of a fetch ("always True in HS2", line 144)
HasMoreRows(of) == IF of = USER_STMT THEN BOOLEAN ELSE {TRUE}

\* the TTableSchema the server describes the results of an operation with
SchemaOf(of) ==
  CASE of = "GetTables" -> [columns |-> <<[columnName |-> "TABLE_NAME"], [columnName |-> "TABLE_TYPE"], [columnName |-> "REMARKS"]>>]
    [] of = DESCRIBE -> [columns |-> <<[columnName |-> "col_name"], [columnName |-> "data_type"], [columnName |-> "comment"]>>]
    [] of = SHOW_PARTITIONS -> [columns |-> <<[columnName |-> "partition"]>>]
    [] OTHER -> [columns |-> <<[columnName |-> "a"], [columnName |-> "b"]>>]

\* the schemas the server may describe the results of an operation with: the
\* database column of GetSchemas is named TABLE_SCHEM by one service and
\* TABLE_SCHEMA by the other (lines 328-331)
SchemasOf(of) ==
  IF of = "GetSchemas"
  THEN {[columns |-> <<[columnName |-> n], [columnName |-> "TABLE_CATALOG"]>>] :
          n \in {"TABLE_SCHEM", "TABLE_SCHEMA"}}
  ELSE {SchemaOf(of)}

(***************************************************************************)
(* Requests and responses of the RPC stub.                                 *)
(***************************************************************************)
\* the request types of TCLIService that have a sessionHandle field
HasSessionHandleField(fn) ==
  fn \in {"ExecuteStatement", "GetTables", "GetSchemas", "GetColumns", "CloseSession"}

\* a request as its constructor leaves it: the session handle unset
NewReq(fn, statement, operationHandle, orientation, maxRows) ==
  [fn |-> fn,
   hasSessionHandle |-> HasSessionHandleField(fn),
   sessionHandle |-> None,
   statement |-> statement,
   operationHandle |-> operationHandle,
   orientation |-> orientation,
   maxRows |-> maxRows]

NoReq == NewReq("", "", None, None, None)

NoPayload ==
  [operationHandle |-> None, results |-> None, hasMoreRows |-> FALSE, schema |-> None]

\* what the server may answer a request with, besides the status
Payloads(req) ==
  CASE req.fn = "ExecuteStatement" ->
         {[NoPayload EXCEPT !.operationHandle = Some([hasResultSet |-> b, of |-> req.statement])] :
            b \in HasResultSet(req.statement)}
    [] req.fn \in {"GetTables", "GetSchemas", "GetColumns"} ->
         {[NoPayload EXCEPT !.operationHandle = Some([hasResultSet |-> TRUE, of |-> req.fn])]}
    [] req.fn = "FetchResults" ->
         {[NoPayload EXCEPT !.results = Some([rows |-> p, startRowOffset |-> 0]),
                            !.hasMoreRows = m] :
            p \in Pages(The(req.operationHandle).of),
            m \in HasMoreRows(The(req.operationHandle).of)}
    [] req.fn = "GetResultSetMetadata" ->
         {[NoPayload EXCEPT !.schema = Some(sc)] :
            sc \in SchemasOf(The(req.operationHandle).of)}
    [] OTHER -> {NoPayload}

GoodCodes == {SUCCESS_STATUS, SUCCESS_WITH_INFO_STATUS, STILL_EXECUTING_STATUS}

\* the responses to req whose status is in St; only a good status carries a payload
Responses(req, St) ==
  UNION {{[status |-> st, operationHandle |-> p.operationHandle, results |-> p.results,
           hasMoreRows |-> p.hasMoreRows, schema |-> p.schema] :
            p \in IF st.statusCode \in GoodCodes THEN Payloads(req) ELSE {NoPayload}} :
         st \in St}

TStatus(codes, messages) == [statusCode : codes, errorMessage : messages]

\* the statuses a call is answered with: every message with ERROR_STATUS, and
\* the other codes with no message or with one that names an invalid session
AllStatus ==
  TStatus({ERROR_STATUS}, ErrorMessages)
    \cup TStatus({INVALID_HANDLE_STATUS}, {None, Some(MsgInvalidSessionHandle)})
    \cup TStatus({SUCCESS_STATUS}, {None, Some(MsgInvalidSessionUpper)})
    \cup TStatus({SUCCESS_WITH_INFO_STATUS, STILL_EXECUTING_STATUS}, {None})

\* the statuses the calls of a composite operation are answered with
OpStatus ==
  TStatus({SUCCESS_STATUS}, {None})
    \cup TStatus({ERROR_STATUS}, {None, Some(MsgInvalidSessionHandle)})

\* call, lines 291-292: an unset session handle field is filled from the session
bind(req, session) ==
  IF req.hasSessionHandle /\ IsNone(req.sessionHandle)
  THEN [req EXCEPT !.sessionHandle = Some(get_handle(session))]
  ELSE req

\* a retry that sends the request as it was first sent
rebind_kept(req, session) == req

\* call, line 302: the handle of the new session is assigned unconditionally
rebind(req, session) ==
  [req EXCEPT !.hasSessionHandle = TRUE, !.sessionHandle = Some(get_handle(session))]

(***************************************************************************)
(* Operations as programs: the calls an operation makes, in order, and the *)
(* local steps between them.                                               *)
(***************************************************************************)
DefaultStatus == Some(SUCCESS_STATUS)

\* self.call(self._client.<fn>, req[, status]); the response goes to local `into`
CallI(fn, statement, status, into) ==
  [k |-> "call", fn |-> fn, statement |-> statement, status |-> status, into |-> into,
   orientation |-> None, max_rows |-> None]

\* self.call(self._client.FetchResults, fetch_req), line 425
FetchI(orientation, max_rows) ==
  [CallI("FetchResults", "", DefaultStatus, "results") EXCEPT
     !.orientation = Some(orientation), !.max_rows = Some(max_rows)]

Do(k) ==
  [k |-> k, fn |-> "", statement |-> "", status |-> None, into |-> "",
   orientation |-> None, max_rows |-> None]

\* fetch_result, lines 423-433
fetch_result(orientation, max_rows) ==
  <<FetchI(orientation, max_rows), Do("meta_if")>>

\* execute_statement, lines 391-395
execute_statement(statement, max_rows) ==
  <<CallI("ExecuteStatement", statement, DefaultStatus, "operationHandle")>>
    \o fetch_result(FETCH_NEXT, max_rows)

\* the SET sent whatever the service
set_blocking_always(server_name) == execute_statement(SET_TRUE, 100)

\* the 'SET hive.server2.blocking.query=true' of lines 352-353, 365-366,
\* 376-377, 450-451
set_blocking(server_name) ==
  IF server_name = "beeswax" THEN execute_statement(SET_TRUE, 100) ELSE <<>>

\* get_table, lines 345-356
get_table(server_name) ==
  <<CallI("GetTables", "", DefaultStatus, "operationHandle")>>
    \o fetch_result(FETCH_NEXT, 100)
    \o <<Do("save_table")>>
    \o set_blocking(server_name)
    \o execute_statement(DESCRIBE, 100)
    \o <<Do("HiveServerTable")>>

\* execute_query_statement, lines 363-369
execute_query_statement(server_name, statement, max_rows) ==
  set_blocking(server_name) \o execute_statement(statement, max_rows)
    \o <<Do("HiveServerDataTable")>>

\* fetch_data, lines 410-413
fetch_data(orientation, max_rows) ==
  fetch_result(orientation, max_rows) \o <<Do("HiveServerDataTable")>>

\* get_partitions, lines 448-454
get_partitions(server_name) ==
  get_table(server_name)
    \o set_blocking(server_name)
    \o execute_query_statement(server_name, SHOW_PARTITIONS, 100)
    \o <<Do("partitions")>>

\* get_databases, lines 321-333
get_databases ==
  <<CallI("GetSchemas", "", DefaultStatus, "operationHandle")>>
    \o fetch_result(FETCH_NEXT, 100)
    \o <<Do("get_databases")>>

\* get_tables, lines 336-342
get_tables ==
  <<CallI("GetTables", "", DefaultStatus, "operationHandle")>>
    \o fetch_result(FETCH_NEXT, 100)
    \o <<Do("get_tables")>>

\* get_columns, lines 416-420
get_columns ==
  <<CallI("GetColumns", "", DefaultStatus, "operationHandle")>>
    \o fetch_result(FETCH_NEXT, 100)
    \o <<Do("return_results")>>

\* get_operation_status, lines 436-438
get_operation_status == <<CallI("GetOperationStatus", "", DefaultStatus, "ret")>>

\* get_log, lines 441-445
get_log == <<CallI("GetLog", "", DefaultStatus, "ret"), Do("res_log")>>

\* close_session, lines 314-318 (the RPC is not made through call)
close_session == <<Do("close_session")>>

\* execute_async_statement, lines 398-407
execute_async_statement(statement) ==
  <<CallI("ExecuteStatement", statement, DefaultStatus, "operationHandle"),
    Do("HiveServerQueryHandle")>>

\* execute_async_query, lines 378-379: every resource, stripped, is executed
RECURSIVE execute_resources(_)
execute_resources(configuration) ==
  IF configuration = <<>> THEN <<>>
  ELSE execute_statement(strip(Head(configuration)), 100)
         \o execute_resources(Tail(configuration))

\* execute_async_query, lines 372-388
execute_async_query(server_name, statement, configuration) ==
  (IF statement = 0
   THEN set_blocking(server_name) \o execute_resources(configuration)
   ELSE <<>>)
    \o (IF server_name = "beeswax" THEN execute_statement(SET_FALSE, 100) ELSE <<>>)
    \o execute_async_statement(USER_STMT)

\* a fetch that asks for FETCH_FIRST whenever start_over is set
fetch_orientation_any(server_name, start_over) ==
  IF start_over THEN FETCH_FIRST ELSE FETCH_NEXT

\* HiveServerClientCompatible.fetch, lines 537-544
fetch_orientation(server_name, start_over) ==
  LET so == IF server_name = "impala" THEN FALSE ELSE start_over
  IN  IF so THEN FETCH_FIRST ELSE FETCH_NEXT

\* HiveServerClientCompatible.fetch, lines 534-535
fetch_max_rows(max_rows) == IF IsNone(max_rows) THEN 10000 ELSE The(max_rows)

\* HiveServerClientCompatible.fetch, lines 532-548
facade_fetch(server_name, start_over, max_rows) ==
  fetch_data(fetch_orientation(server_name, start_over), fetch_max_rows(max_rows))
    \o <<Do("ResultCompatible")>>

\* HiveServerClientCompatible.get_databases, lines 564-569
facade_get_databases == get_databases \o <<Do("facade_get_databases")>>

\* an operation a caller may start, with its arguments
Op(name, fn, status, hasResultSet, max_parts) ==
  [name |-> name, fn |-> fn, status |-> status, hasResultSet |-> hasResultSet,
   max_parts |-> max_parts,
   \* execute_async_query: the index of the statement, the query's resources
   statement |-> 0, configuration |-> <<>>,
   \* the facade's fetch: start_over, max_rows
   start_over |-> FALSE, max_rows |-> None]

NoOp == Op("none", "", None, FALSE, 0)

Program(o, server_name) ==
  CASE o.name = "call" -> <<CallI(o.fn, "", o.status, "ret")>>
    [] o.name = "fetch_data" -> fetch_data(FETCH_NEXT, 100)
    [] o.name = "get_table" -> get_table(server_name)
    [] o.name = "execute_query_statement" ->
         execute_query_statement(server_name, USER_STMT, 100)
    [] o.name = "get_partitions" -> get_partitions(server_name)
    [] o.name = "get_databases" -> get_databases
    [] o.name = "get_tables" -> get_tables
    [] o.name = "facade_get_databases" -> facade_get_databases
    [] o.name = "execute_statement" ->
         execute_statement(USER_STMT, 100) \o <<Do("return_results")>>
    [] o.name = "get_columns" -> get_columns
    [] o.name = "get_operation_status" -> get_operation_status
    [] o.name = "get_log" -> get_log
    [] o.name = "close_session" -> close_session
    [] o.name = "execute_async_query" ->
         execute_async_query(server_name, o.statement, o.configuration)
    [] o.name = "facade_fetch" -> facade_fetch(server_name, o.start_over, o.max_rows)
    [] OTHER -> <<>>

(***************************************************************************)
(* Result tables and catalog objects.                                      *)
(***************************************************************************)
\* HiveServerTRowSet.__init__, lines 110-114
HiveServerTRowSet(row_set, schema) ==
  [rows |-> row_set.rows, schema |-> schema, startRowOffset |-> row_set.startRowOffset]

\* HiveServerTRowSet.is_empty, lines 116-117
is_empty(row_set) == Len(row_set.rows) = 0

\* a next that pops the last row: self.rows.pop()
pop_row_last(rows) == [row |-> rows[Len(rows)], rest |-> SubSeq(rows, 1, Len(rows) - 1)]

\* HiveServerTRowSet.next, lines 132-134: self.rows.pop(0), the row and the rows left
pop_row(rows) == [row |-> Head(rows), rest |-> Tail(rows)]

\* has_more taken from the server's flag
has_more_flag(results, row_set) == results.hasMoreRows

\* HiveServerDataTable.__init__, line 144
has_more(results, row_set) == ~is_empty(row_set)

\* HiveServerDataTable.__init__, lines 141-145; results and schema are what the
\* code reads of the responses of FetchResults and GetResultSetMetadata (schema
\* may be None)
HiveServerDataTable(results, schema) ==
  LET row_set == HiveServerTRowSet(The(results.results), schema)
  IN  [schema |-> IF IsNone(schema) THEN None ELSE The(schema).schema,
       row_set |-> row_set,
       has_more |-> has_more(results, row_set),
       startRowOffset |-> row_set.startRowOffset]

\* HiveServerDataTable.rows run to its end, lines 157-159: the rows it yields
RECURSIVE rows_all(_)
rows_all(rows) ==
  IF rows = <<>> THEN <<>>
  ELSE LET n == pop_row(rows) IN <<fields(n.row)>> \o rows_all(n.rest)

\* HiveServerTable.__init__, lines 44-50: the exception raised, or the table
HiveServerTable(table_results, table_schema, desc_results, desc_schema) ==
  IF table_results.rows = <<>>
  THEN [exc |-> "NoSuchObjectException", obj |-> None]
  ELSE [exc |-> "",
        obj |-> Some([table |-> table_results.rows[1], table_schema |-> table_schema,
                      results |-> desc_results, schema |-> desc_schema])]

\* a lookup that takes the last schema column of that name
get_col_position_last(schema, column_name) ==
  LET hits == {i \in 1..Len(schema.columns) : schema.columns[i].columnName = column_name}
  IN  IF hits = {} THEN None ELSE Some(CHOOSE i \in hits : \A j \in hits : j <= i)

\* HiveServerTRow._get_col_position, lines 188-189: the index of the first
\* schema column of that name; filter(...)[0] of no match is an IndexError
get_col_position(schema, column_name) ==
  LET hits == {i \in 1..Len(schema.columns) : schema.columns[i].columnName = column_name}
  IN  IF hits = {} THEN None ELSE Some(CHOOSE i \in hits : \A j \in hits : i <= j)

\* HiveServerTRow.col, lines 184-186: the exception raised, or the value
col(row, schema, colName) ==
  LET pos == get_col_position(schema, colName)
  IN  IF IsNone(pos) \/ The(pos) > Len(row.colVals)
      THEN [exc |-> "IndexError", value |-> None]
      ELSE [exc |-> "", value |-> val(row.colVals[The(pos)])]

\* HiveServerTRowSet.cols, lines 119-127: one dict per row, keyed by col_names
cols(rows, schema, col_names) ==
  IF \E i \in 1..Len(rows) : \E n \in col_names : col(rows[i], schema, n).exc # ""
  THEN [exc |-> "IndexError", value |-> <<>>]
  ELSE [exc |-> "",
        value |-> [i \in 1..Len(rows) |-> [n \in col_names |-> col(rows[i], schema, n).value]]]

\* a facade that reads TABLE_SCHEMA whatever the service
facade_db_col_fixed(server_name) == "TABLE_SCHEMA"

\* HiveServerClient.get_databases, lines 328-331: the column projected
client_db_col(server_name) ==
  IF server_name = "impala" THEN "TABLE_SCHEM" ELSE "TABLE_SCHEMA"

\* HiveServerClientCompatible.get_databases, lines 565-568: the column read
facade_db_col(server_name) ==
  IF server_name = "impala" THEN "TABLE_SCHEM" ELSE "TABLE_SCHEMA"

\* HiveServerClientCompatible.get_databases, line 569: table[col] of every
\* dict; a dict without that key is a KeyError
facade_databases(tables, column) ==
  IF \E i \in 1..Len(tables) : column \notin DOMAIN tables[i]
  THEN [exc |-> "KeyError", value |-> <<>>]
  ELSE [exc |-> "", value |-> [i \in 1..Len(tables) |-> tables[i][column]]]

Min2(a, b) == IF a < b THEN a ELSE b
Max2(a, b) == IF a > b THEN a ELSE b

\* Python's lst[start:]
SliceFrom(lst, start) ==
  LET n == Len(lst)
      from == IF start < 0 THEN Max2(n + start, 0) ELSE Min2(start, n)
  IN  SubSeq(lst, from + 1, n)

\* get_partitions, line 454: [...][-max_parts:]
last_parts(parts, max_parts) == SliceFrom(parts, 0 - max_parts)

\* str.split('=')[1]: the text between the first '=' and the next one
SplitEq1(s) ==
  LET eqs == {i \in 1..Len(s) : s[i] = "="}
      first == CHOOSE i \in eqs : \A j \in eqs : i <= j
      later == {i \in eqs : i > first}
      stop == IF later = {} THEN Len(s) + 1 ELSE CHOOSE i \in later : \A j \in later : i <= j
  IN  SubSeq(s, first + 1, stop - 1)

\* PartitionValueCompatible.__init__, lines 502-505; the location keeps its two parts
PartitionValueCompatible(partition, table) ==
  [values |-> [i \in 1..Len(partition) |-> SplitEq1(The(partition[i]))],
   sd |-> [location |-> [table |-> table.table, partition |-> partition]]]

(***************************************************************************)
(* The state of one client: the HiveServerClient's fields (user,           *)
(* server_name), the operation it runs, and the locals of that operation   *)
(* and of the call in progress.                                            *)
(***************************************************************************)
NewClient(user, server_name) ==
  [user |-> user, server_name |-> server_name,
   opsDone |-> 0,           \* operations started so far
   staleSeen |-> FALSE,     \* some response so far reported a stale session
   op |-> NoOp,             \* the operation in progress, or the last one
   todo |-> <<>>,           \* what is left of its program
   pc |-> "idle",           \* position inside call, or idle / done
   outcome |-> "none",      \* "return" or the exception the operation raised
   ret |-> None,            \* the value returned (a table returned is in dt)
   \* locals of call
   req |-> NoReq, status |-> None, session |-> None, found |-> FALSE,
   openRes |-> None, res |-> None,
   first |-> None,          \* the status of the first invocation's response
   log |-> <<>>,            \* the RPCs this call has issued, in order
   traced |-> FALSE,        \* whether the history of the operation is kept
   oplog |-> <<>>,          \* history: the calls of self.call the operation has
                            \* made, each with the request it was made with, and
                            \* the RPCs it has issued without self.call
   ran |-> None,            \* history: the session, and its settings, in which the
                            \* server executed the last statement of the operation
   closed |-> None,         \* history: the session the client's close_session has
                            \* had the server close, if it was the last to do so
   since |-> 0,             \* history: the calls of self.call begun since then
   renewed |-> None,        \* history: the session a call has opened since then
                            \* on a stale response, the last of them
   \* locals of the operation
   operationHandle |-> None, results |-> None, schema |-> None,
   table_results |-> None, table_schema |-> None, table |-> None,
   dt |-> None,             \* the HiveServerDataTable built, with the rows left in it
   page |-> <<>>,           \* the rows of the page dt was built from
   iterating |-> FALSE,     \* a traversal of dt.rows() is under way
   yielded |-> <<>>,        \* what the current (or last) traversal has yielded
   traversals |-> 0]        \* traversals of dt.rows() run to their end

\* an exception leaves the operation: nothing is returned
Raise(s, exc) == [s EXCEPT !.pc = "done", !.outcome = exc, !.todo = <<>>, !.ret = None]

\* the request of a call; those about an operation carry its handle
ReqOf(i, s) ==
  NewReq(i.fn, i.statement,
         IF i.fn \in {"FetchResults", "GetResultSetMetadata", "GetOperationStatus", "GetLog"}
         THEN s.operationHandle ELSE None,
         i.orientation, i.max_rows)

\* get_partitions, line 454: the list comprehension over partitionTable.rows()
partition_list(dt, table) ==
  LET parts == rows_all(dt.row_set.rows)
  IN  [i \in 1..Len(parts) |-> PartitionValueCompatible(parts[i], table)]

\* an entry of a call's log: the RPC issued and the request it was issued with
Sent(rpc, req) == [rpc |-> rpc, req |-> req]

\* the history of the operation of s with one more entry
Issued(s, rpc, req) == IF s.traced THEN Append(s.oplog, Sent(rpc, req)) ELSE s.oplog

\* The local steps of an operation, up to its next call or its end.
RECURSIVE Run(_)
Run(s) ==
  IF s.todo = <<>> THEN [s EXCEPT !.pc = "done", !.outcome = "return"]
  ELSE
    LET i == Head(s.todo)
        rest == Tail(s.todo)
    IN  CASE i.k = "call" ->
               [s EXCEPT !.pc = "lookup", !.req = ReqOf(i, s), !.status = i.status,
                         !.session = None, !.found = FALSE, !.openRes = None,
                         !.res = None, !.first = None, !.log = <<>>,
                         !.oplog = Issued(s, i.fn, ReqOf(i, s)),
                         !.since = IF IsNone(s.closed) THEN 0 ELSE s.since + 1]
          [] i.k = "meta_if" ->
               \* fetch_result, lines 427-431
               IF The(s.operationHandle).hasResultSet
               THEN Run([s EXCEPT !.todo =
                           <<CallI("GetResultSetMetadata", "", DefaultStatus, "schema")>> \o rest])
               ELSE Run([s EXCEPT !.schema = None, !.todo = rest])
          [] i.k = "save_table" ->
               \* get_table, line 349
               Run([s EXCEPT !.table_results = s.results, !.table_schema = s.schema,
                             !.todo = rest])
          [] i.k = "HiveServerTable" ->
               \* get_table, line 356
               IF IsNone(s.table_schema) \/ IsNone(s.schema)
               THEN Raise(s, "AttributeError")
               ELSE LET t == HiveServerTable(The(The(s.table_results).results),
                                             The(s.table_schema).schema,
                                             The(The(s.results).results),
                                             The(s.schema).schema)
                    IN  IF t.exc # "" THEN Raise(s, t.exc)
                        ELSE Run([s EXCEPT !.table = t.obj, !.ret = t.obj, !.todo = rest])
          [] i.k = "HiveServerDataTable" ->
               \* execute_query_statement, line 369; fetch_data, line 413
               LET d == HiveServerDataTable(The(s.results), s.schema)
               IN  Run([s EXCEPT !.dt = Some(d), !.page = d.row_set.rows, !.ret = None,
                                 !.todo = rest])
          [] i.k \in {"get_databases", "get_tables"} ->
               \* get_databases, lines 328-333; get_tables, line 342
               IF IsNone(s.schema) THEN Raise(s, "AttributeError")
               ELSE LET names == IF i.k = "get_tables" THEN {"TABLE_NAME"}
                                 ELSE {client_db_col(s.server_name)}
                        r == cols(HiveServerTRowSet(The(The(s.results).results),
                                                    The(s.schema).schema).rows,
                                  The(The(s.schema).schema), names)
                    IN  IF r.exc # "" THEN Raise(s, r.exc)
                        ELSE Run([s EXCEPT !.ret = Some(r.value), !.todo = rest])
          [] i.k = "facade_get_databases" ->
               \* HiveServerClientCompatible.get_databases, lines 565-569
               LET r == facade_databases(The(s.ret), facade_db_col(s.server_name))
               IN  IF r.exc # "" THEN Raise(s, r.exc)
                   ELSE Run([s EXCEPT !.ret = Some(r.value), !.todo = rest])
          [] i.k = "return_results" ->
               \* return res, schema (line 433), handed on by the caller
               Run([s EXCEPT !.ret = Some([results |-> s.results, schema |-> s.schema]),
                             !.todo = rest])
          [] i.k = "res_log" ->
               \* get_log, line 445
               Run([s EXCEPT !.ret = Some([log |-> The(s.ret).status]), !.todo = rest])
          [] i.k = "HiveServerQueryHandle" ->
               \* execute_async_statement, lines 403-407
               Run([s EXCEPT !.ret = Some([operationHandle |-> s.operationHandle]),
                             !.todo = rest])
          [] i.k = "ResultCompatible" ->
               \* ResultCompatible.__init__, lines 475-480
               LET d == The(s.dt)
               IN  Run([s EXCEPT !.ret = Some([has_more |-> d.has_more,
                                               start_row |-> d.startRowOffset,
                                               ready |-> TRUE]),
                                 !.todo = rest])
          [] i.k = "close_session" ->
               \* close_session, line 315: the lookup comes next
               [s EXCEPT !.pc = "close", !.todo = rest, !.log = <<>>, !.res = None]
          [] i.k = "partitions" ->
               \* get_partitions, line 454; the traversal empties the table
               LET d == The(s.dt)
               IN  Run([s EXCEPT !.ret = Some(last_parts(partition_list(d, The(s.table)),
                                                         s.op.max_parts)),
                                 !.dt = Some([d EXCEPT !.row_set.rows = <<>>]),
                                 !.todo = rest])

(***************************************************************************)
(* The actions.                                                            *)
(***************************************************************************)
Upd(c, s) == cl' = [cl EXCEPT ![c] = s]

\* the server's session a bound request names
SessionOf(req) == The(req.sessionHandle).sessionId.secret

\* The server executes the statement of an accepted ExecuteStatement in the
\* session of the request: a SET stays in that session ("This will leak the
\* config in the session", line 374).
server_execute(st, req) ==
  IF req.fn # "ExecuteStatement" THEN st
  ELSE LET h == SessionOf(req)
       IN  CASE req.statement = SET_TRUE -> [st EXCEPT ![h].blocking = "true"]
             [] req.statement = SET_FALSE -> [st EXCEPT ![h].blocking = "false"]
             [] req.statement = CONF_STMT ->
                  [st EXCEPT ![h].configuration = @ \cup {CONF_STMT}]
             [] OTHER -> st

\* the settings of the server after it answered req with r
server_after(st, req, r) ==
  IF r.status.statusCode \in GoodCodes THEN server_execute(st, req) ELSE st

\* the server accepts no request in a session it has closed
Answers(st, req, St) ==
  {r \in Responses(req, St) :
     (r.status.statusCode \in GoodCodes /\ ~IsNone(req.sessionHandle)) =>
       ~st[SessionOf(req)].closed}

\* what the client's operation has had executed: the statement, the session
\* and the settings of that session when the server executed it
ran_after(s, st, req, r) ==
  IF s.traced /\ req.fn = "ExecuteStatement" /\ r.status.statusCode \in GoodCodes
  THEN Some([statement |-> req.statement, session |-> SessionOf(req),
             blocking |-> st[SessionOf(req)].blocking,
             configuration |-> st[SessionOf(req)].configuration])
  ELSE s.ran

\* A caller starts operation o on client c.
StartOp(c, Ops, max) ==
  \E o \in Ops :
    LET s == cl[c]
        fresh == [NewClient(s.user, s.server_name) EXCEPT
                    !.opsDone = s.opsDone + 1, !.staleSeen = s.staleSeen,
                    !.traced = s.traced,
                    !.closed = s.closed, !.since = s.since, !.renewed = s.renewed,
                    !.op = o, !.todo = Program(o, s.server_name),
                    !.operationHandle =
                       IF o.name \in {"fetch_data", "facade_fetch", "get_operation_status",
                                       "get_log"}
                       THEN Some([hasResultSet |-> o.hasResultSet, of |-> USER_STMT])
                       ELSE None]
    IN  /\ s.pc \in {"idle", "done"}
        /\ ~s.iterating
        /\ s.opsDone < max
        /\ Upd(c, Run(fresh))
        /\ UNCHANGED <<store, sessions, lastOpened, settings>>

\* a call that opens a session without looking one up
call_lookup_always_open(c) ==
  /\ cl[c].pc = "lookup"
  /\ Upd(c, [cl[c] EXCEPT !.pc = "open", !.found = FALSE])
  /\ UNCHANGED <<store, sessions, lastOpened, settings>>

\* call, lines 286-292: the lookup of the session, and the binding of the request
call_lookup(c) ==
  LET s == cl[c]
      session == get_session(store, s.user, s.server_name)
  IN  /\ s.pc = "lookup"
      /\ IF IsNone(session)
         THEN Upd(c, [s EXCEPT !.pc = "open", !.found = FALSE])
         ELSE Upd(c, [s EXCEPT !.pc = "invoke", !.found = TRUE, !.session = session,
                               !.req = bind(s.req, The(session))])
      /\ UNCHANGED <<store, sessions, lastOpened, settings>>

\* open_session, lines 269-270: the OpenSession RPC; the server opens a session
open_session_rpc(c) ==
  LET s == cl[c]
  IN  /\ s.pc \in {"open", "reopen"}
      /\ sessions' = Append(sessions, <<s.user, s.server_name>>)
      /\ settings' = Append(settings, NewSettings)
      /\ Upd(c, [s EXCEPT !.pc = IF s.pc = "open" THEN "create" ELSE "recreate",
                          !.openRes = Some(OpenSessionResp(Len(sessions) + 1)),
                          !.log = Append(@, Sent("OpenSession", NoReq))])
      /\ UNCHANGED <<store, lastOpened>>

\* open_session, lines 272-282: the record is persisted; then call binds the
\* request (lines 291-292 before the first invocation, line 302 before the retry)
open_session_create(c) ==
  LET s == cl[c]
      session == SessionRecord(s.user, s.server_name, The(s.openRes))
  IN  /\ s.pc \in {"create", "recreate"}
      /\ store' = open_session_store(store, s.user, s.server_name, The(s.openRes))
      /\ lastOpened' = [lastOpened EXCEPT ![<<s.user, s.server_name>>] =
                          Some(The(s.openRes).sessionHandle)]
      /\ Upd(c, [s EXCEPT !.pc = IF s.pc = "create" THEN "invoke" ELSE "retry",
                          !.session = Some(session),
                          !.renewed = IF IsNone(s.closed) THEN None
                                      ELSE Some(The(s.openRes).sessionHandle.sessionId.secret),
                          !.req = IF s.pc = "create" THEN bind(s.req, session)
                                  ELSE rebind(s.req, session)])
      /\ UNCHANGED <<sessions, settings>>

\* an end of call that returns the response whatever its status
call_end_unchecked(s) == [s EXCEPT !.pc = "returned"]

\* the end of call if a stale response led to a new session every time
call_end_again(s) ==
  IF IsStaleSession(The(s.res)) THEN [s EXCEPT !.pc = "reopen"]
  ELSE IF BadStatus(s.status, The(s.res)) THEN Raise(s, "QueryServerException")
  ELSE [s EXCEPT !.pc = "returned"]

\* call, lines 307-311: raise on a bad status, else return the response
call_end(s) ==
  IF BadStatus(s.status, The(s.res)) THEN Raise(s, "QueryServerException")
  ELSE [s EXCEPT !.pc = "returned"]

\* call, line 299: whether the stale response leads to a new session
call_after_first(s) ==
  IF IsStaleSession(The(s.res)) THEN [s EXCEPT !.pc = "reopen"] ELSE call_end(s)

\* call, lines 294-311: the first invocation of the RPC
call_invoke(c, St) ==
  LET s == cl[c]
  IN  /\ s.pc = "invoke"
      /\ \E r \in Answers(settings, s.req, St) :
           /\ IsStaleSession(r) => Len(sessions) < MaxSessions
           /\ settings' = server_after(settings, s.req, r)
           /\ Upd(c, call_after_first(
                       [s EXCEPT !.res = Some(r), !.first = Some(r.status),
                                 !.staleSeen = @ \/ IsStaleSession(r),
                                 !.ran = ran_after(s, settings, s.req, r),
                                 !.log = Append(@, Sent(s.req.fn, s.req))]))
      /\ UNCHANGED <<store, sessions, lastOpened>>

\* call, lines 305-311: the retry, getattr(self._client, fn.attr)(req)
call_retry(c, St) ==
  LET s == cl[c]
  IN  /\ s.pc = "retry"
      /\ \E r \in Answers(settings, s.req, St) :
           /\ settings' = server_after(settings, s.req, r)
           /\ Upd(c, call_end([s EXCEPT !.res = Some(r),
                                        !.staleSeen = @ \/ IsStaleSession(r),
                                        !.ran = ran_after(s, settings, s.req, r),
                                        !.log = Append(@, Sent(s.req.fn, s.req))]))
      /\ UNCHANGED <<store, sessions, lastOpened>>

\* The caller of call takes the response and goes on to its next call or its end.
op_continue(c) ==
  LET s == cl[c]
      i == Head(s.todo)
      r == The(s.res)
      kept == CASE i.into = "operationHandle" -> [s EXCEPT !.operationHandle = r.operationHandle]
                [] i.into = "results" ->
                     [s EXCEPT !.results = Some([results |-> r.results,
                                                 hasMoreRows |-> r.hasMoreRows])]
                [] i.into = "schema" -> [s EXCEPT !.schema = Some([schema |-> r.schema])]
                [] OTHER -> [s EXCEPT !.ret = Some(r)]
  IN  /\ s.pc = "returned"
      /\ Upd(c, Run([kept EXCEPT !.todo = Tail(s.todo)]))
      /\ UNCHANGED <<store, sessions, lastOpened, settings>>

\* a close request built without the handle of the session
close_request_unbound(session) == NewReq("CloseSession", "", None, None, None)

\* close_session, line 317: TCloseSessionReq(sessionHandle=session)
close_request(session) ==
  [NewReq("CloseSession", "", None, None, None) EXCEPT
     !.sessionHandle = Some(get_handle(session))]

\* close_session, lines 315-317: the stored session's handle goes into the
\* request; get_session returning None makes .get_handle() an AttributeError
close_lookup(c) ==
  LET s == cl[c]
      session == get_session(store, s.user, s.server_name)
  IN  /\ s.pc = "close"
      /\ IF IsNone(session)
         THEN Upd(c, Raise(s, "AttributeError"))
         ELSE Upd(c, [s EXCEPT !.pc = "closing", !.session = session,
                               !.req = close_request(The(session))])
      /\ UNCHANGED <<store, sessions, lastOpened, settings>>

\* the history of a client whose CloseSession was answered with r
closed_after(s, r) ==
  IF s.traced /\ r.status.statusCode \in GoodCodes
  THEN [s EXCEPT !.closed = Some(SessionOf(s.req)), !.since = 0, !.renewed = None]
  ELSE s

\* close_session, line 318: the CloseSession RPC; its response is returned
\* as it is, and a session the server accepted to close is closed
close_rpc(c, St) ==
  LET s == cl[c]
  IN  /\ s.pc = "closing"
      /\ \E r \in Answers(settings, s.req, St) :
           /\ settings' = IF r.status.statusCode \in GoodCodes
                          THEN [settings EXCEPT ![SessionOf(s.req)].closed = TRUE]
                          ELSE settings
           /\ Upd(c, Run([closed_after(s, r) EXCEPT
                                   !.res = Some(r), !.ret = Some(r),
                                   !.log = Append(@, Sent("CloseSession", s.req)),
                                   !.oplog = Issued(s, "CloseSession", s.req)]))
      /\ UNCHANGED <<store, sessions, lastOpened>>

\* The caller begins a traversal of the returned table: for row in table.rows()
rows_start(c) ==
  LET s == cl[c]
  IN  /\ s.pc = "done" /\ s.outcome = "return" /\ ~IsNone(s.dt)
      /\ s.op.name \in {"fetch_data", "execute_query_statement"}
      /\ ~s.iterating
      /\ s.traversals < MaxTraversals
      /\ Upd(c, [s EXCEPT !.iterating = TRUE, !.yielded = <<>>])
      /\ UNCHANGED <<store, sessions, lastOpened, settings>>

\* HiveServerDataTable.rows, lines 158-159, over HiveServerTRowSet.next, lines
\* 133-134: one more row is popped and yielded decoded
rows_next(c) ==
  LET s == cl[c]
      d == The(s.dt)
      n == pop_row(d.row_set.rows)
  IN  /\ s.iterating
      /\ d.row_set.rows # <<>>
      /\ Upd(c, [s EXCEPT !.dt = Some([d EXCEPT !.row_set.rows = n.rest]),
                          !.yielded = Append(@, fields(n.row))])
      /\ UNCHANGED <<store, sessions, lastOpened, settings>>

\* HiveServerTRowSet.next, lines 135-136: StopIteration ends the traversal
rows_stop(c) ==
  LET s == cl[c]
  IN  /\ s.iterating
      /\ The(s.dt).row_set.rows = <<>>
      /\ Upd(c, [s EXCEPT !.iterating = FALSE, !.traversals = @ + 1])
      /\ UNCHANGED <<store, sessions, lastOpened, settings>>

(***************************************************************************)
(* The specifications.                                                     *)
(***************************************************************************)
CallOps ==
  {Op("call", fn, st, FALSE, 0) :
     fn \in {"GetOperationStatus", "GetColumns"}, st \in {DefaultStatus, None}}

TableOps ==
  {Op("fetch_data", "", DefaultStatus, b, 0) : b \in BOOLEAN}
    \cup {Op("execute_query_statement", "", DefaultStatus, FALSE, 0),
          Op("get_table", "", DefaultStatus, FALSE, 0)}
    \cup {Op("get_partitions", "", DefaultStatus, FALSE, m) : m \in 0..MaxParts}

\* the statuses two racing clients are answered with
RaceStatus ==
  TStatus({SUCCESS_STATUS}, {None})
    \cup TStatus({ERROR_STATUS}, {None, Some(MsgInvalidSessionHandle)})

\* the calls two racing clients make
RaceOps ==
  {Op("call", "GetColumns", DefaultStatus, FALSE, 0),
   Op("call", "GetOperationStatus", None, FALSE, 0)}

CallNext(c, St, Ops, max) ==
  \/ StartOp(c, Ops, max)
  \/ call_lookup(c)
  \/ open_session_rpc(c)
  \/ open_session_create(c)
  \/ call_invoke(c, St)
  \/ call_retry(c, St)
  \/ op_continue(c)

TableNext(c) ==
  \/ rows_start(c)
  \/ rows_next(c)
  \/ rows_stop(c)

CloseNext(c, St) ==
  \/ close_lookup(c)
  \/ close_rpc(c, St)

\* an operation with the arguments of execute_async_query
AsyncOp(statement, configuration) ==
  [Op("execute_async_query", "", DefaultStatus, FALSE, 0) EXCEPT
     !.statement = statement, !.configuration = configuration]

\* an operation with the arguments of the facade's fetch
FetchOp(hasResultSet, start_over, max_rows) ==
  [Op("facade_fetch", "", DefaultStatus, hasResultSet, 0) EXCEPT
     !.start_over = start_over, !.max_rows = max_rows]

\* every operation of HiveServerClient
ClientOps ==
  {Op(n, "", DefaultStatus, FALSE, 0) :
     n \in {"get_databases", "get_tables", "get_table",
            "execute_query_statement", "execute_statement", "get_columns",
            "get_log", "close_session"}}
    \cup {Op(n, "", DefaultStatus, TRUE, 0) : n \in {"fetch_data", "get_operation_status"}}
    \cup {Op("get_partitions", "", DefaultStatus, FALSE, 1)}
    \cup {AsyncOp(i, conf) : i \in {0, 1}, conf \in {<<>>, <<CONF_RAW>>}}

\* the operations of HiveServerClientCompatible that add to the client's
FacadeOps ==
  {Op(n, "", DefaultStatus, FALSE, 0) : n \in {"get_databases", "facade_get_databases"}}
    \cup {FetchOp(b, so, mr) : b \in BOOLEAN, so \in BOOLEAN, mr \in {None, Some(5)}}

\* One client making calls, one after the other.
Init ==
  /\ store = <<>>
  /\ sessions = <<>>
  /\ settings = <<>>
  /\ lastOpened = [k \in Users \X ServerNames |-> None]
  /\ \E sn \in ServerNames :
       cl = [c \in Clients |-> NewClient(IF c = "c1" THEN "u1" ELSE "u2", sn)]

Next == CallNext("c1", AllStatus, CallOps, MaxOps)

Spec == Init /\ [][Next]_vars

\* One client running the composite operations and reading their results.
NextOps == CallNext("c1", OpStatus, TableOps, MaxOps) \/ TableNext("c1")

SpecOps == Init /\ [][NextOps]_vars

\* what earlier operations may have left in a session: nothing, or the
\* asynchronous mode of an execute_async_query
EarlierSettings == {NewSettings, [NewSettings EXCEPT !.blocking = "false"]}

\* One client running every operation, the history of each operation kept.
\* The store is empty, or holds the session an earlier operation of the
\* user opened on the service.
InitClient ==
  \E sn \in ServerNames :
    /\ cl = [c \in Clients |->
               [NewClient(IF c = "c1" THEN "u1" ELSE "u2", sn) EXCEPT !.traced = TRUE]]
    /\ \/ /\ store = <<>>
          /\ sessions = <<>>
          /\ settings = <<>>
          /\ lastOpened = [k \in Users \X ServerNames |-> None]
       \/ /\ store = open_session_store(<<>>, "u1", sn, OpenSessionResp(1))
          /\ sessions = <<<<"u1", sn>>>>
          /\ settings \in {<<e>> : e \in EarlierSettings}
          /\ lastOpened = [k \in Users \X ServerNames |->
                             IF k = <<"u1", sn>>
                             THEN Some(OpenSessionResp(1).sessionHandle) ELSE None]

NextClient ==
  \/ CallNext("c1", OpStatus, ClientOps, MaxClientOps)
  \/ CloseNext("c1", OpStatus)

SpecClient == InitClient /\ [][NextClient]_vars

\* One client used through its facade.
NextFacade == CallNext("c1", OpStatus, FacadeOps, MaxClientOps)

SpecFacade == InitClient /\ [][NextFacade]_vars

\* the operations of a client that closes its session and goes on using it
RenewOps ==
  {Op(n, "", DefaultStatus, FALSE, 0) : n \in {"close_session", "get_tables"}}
    \cup {Op("get_operation_status", "", DefaultStatus, TRUE, 0)}

\* One client that runs close_session among its operations.
NextRenew ==
  \/ CallNext("c1", OpStatus, RenewOps, MaxRenewOps)
  \/ CloseNext("c1", OpStatus)

SpecRenew == InitClient /\ [][NextRenew]_vars

\* Two clients of one service, of the same user or not, each making calls.
InitRace ==
  /\ store = <<>>
  /\ sessions = <<>>
  /\ settings = <<>>
  /\ lastOpened = [k \in Users \X ServerNames |-> None]
  /\ \E u \in Users :
       cl = [c \in Clients |-> NewClient(IF c = "c1" THEN "u1" ELSE u, "beeswax")]

NextRace == \E c \in Clients : CallNext(c, RaceStatus, RaceOps, MaxRaceOps)

SpecRace == InitRace /\ [][NextRace]_vars

\* an operation that runs a statement synchronously
SyncOps == {Op("execute_query_statement", "", DefaultStatus, FALSE, 0)}

\* the statuses the two clients of one session are answered with: the first
\* may be told its session is stale, the second is always answered SUCCESS
SyncStatus ==
  TStatus({SUCCESS_STATUS}, {None}) \cup TStatus({ERROR_STATUS}, {Some(MsgInvalidSessionHandle)})

AsyncStatus == TStatus({SUCCESS_STATUS}, {None})

\* Two clients of the same user on 'beeswax', hence of one stored session:
\* one runs statements synchronously, the other runs execute_async_query.
InitShared ==
  /\ store = <<>>
  /\ sessions = <<>>
  /\ settings = <<>>
  /\ lastOpened = [k \in Users \X ServerNames |-> None]
  /\ cl = [c \in Clients |-> [NewClient("u1", "beeswax") EXCEPT !.traced = TRUE]]

NextShared ==
  \/ CallNext("c1", SyncStatus, SyncOps, MaxSharedOps)
  \/ CallNext("c2", AsyncStatus, {AsyncOp(1, <<>>)}, MaxSharedOps)

SpecShared == InitShared /\ [][NextShared]_vars

(***************************************************************************)
(* The decoders on their own: the input is drawn, then decoded.            *)
(***************************************************************************)
\* a field of a TColumnValue: unset, or a value object with one of two payloads
Variant(name) == {None} \cup {Some([value |-> <<name, p>>]) : p \in {"0", "1"}}

\* every TColumnValue: each variant populated or not, independently
TColumnValues ==
  [boolVal : Variant("bool"), byteVal : Variant("byte"), i16Val : Variant("i16"),
   i32Val : Variant("i32"), i64Val : Variant("i64"), doubleVal : Variant("double"),
   stringVal : Variant("string")]

InitVal ==
  /\ store = <<>>
  /\ sessions = <<>>
  /\ settings = <<>>
  /\ lastOpened = <<>>
  /\ \E cv \in TColumnValues : cl = [pc |-> "input", column_value |-> cv, out |-> None]

\* HiveServerTColumnValue(tcolumn_value).val
val_step ==
  /\ cl.pc = "input"
  /\ cl' = [cl EXCEPT !.pc = "decoded", !.out = val(cl.column_value)]
  /\ UNCHANGED <<store, sessions, lastOpened, settings>>

SpecVal == InitVal /\ [][val_step]_vars

\* schemas and rows of up to MaxCols columns, of equal length or not
ColumnNames == {"a", "b"}
Cells == {I32(<<"1">>), Str(<<"x">>), NoValue}

InitRow ==
  /\ store = <<>>
  /\ sessions = <<>>
  /\ settings = <<>>
  /\ lastOpened = <<>>
  /\ \E names \in SeqsUpTo(ColumnNames, MaxCols), cells \in SeqsUpTo(Cells, MaxCols),
        colName \in ColumnNames \cup {"c"} :
       cl = [pc |-> "input",
             schema |-> [columns |-> [i \in 1..Len(names) |-> [columnName |-> names[i]]]],
             row |-> [colVals |-> cells],
             colName |-> colName,
             out |-> [exc |-> "", value |-> None]]

\* HiveServerTRow(row, schema).col(colName)
col_step ==
  /\ cl.pc = "input"
  /\ cl' = [cl EXCEPT !.pc = "looked up", !.out = col(cl.row, cl.schema, cl.colName)]
  /\ UNCHANGED <<store, sessions, lastOpened, settings>>

SpecRow == InitRow /\ [][col_step]_vars

(***************************************************************************)
(* What the claims speak of.                                               *)
(***************************************************************************)
\* the call of client state s has ended, by returning or by raising
Completed(s) == s.pc \in {"returned", "done"} /\ ~IsNone(s.res)

\* the places of the call's log where the target RPC was invoked
FnAt(s) == {i \in 1..Len(s.log) : s.log[i].rpc = s.req.fn}

OpenAt(s) == {i \in 1..Len(s.log) : s.log[i].rpc = "OpenSession"}

\* a status that reports a stale session, as the specification words it
NamesInvalidSession(status) ==
  /\ status.statusCode = ERROR_STATUS
  /\ status.errorMessage \in {Some(MsgInvalidSessionHandle), Some(MsgInvalidSessionUpper)}

AcceptedCodes == {SUCCESS_STATUS, SUCCESS_WITH_INFO_STATUS, STILL_EXECUTING_STATUS}

CallReturned(s) ==
  \/ s.pc = "returned"
  \/ s.pc = "done" /\ s.outcome = "return" /\ s.ret = s.res

CallRaised(s) ==
  s.pc = "done" /\ s.outcome = "QueryServerException" /\ IsNone(s.ret)

\* C1: within one call the target RPC is invoked at most twice; and when the
\* first invocation is answered ERROR_STATUS with a message naming an invalid
\* session (in any case of letters), the call goes on with exactly one
\* OpenSession RPC and exactly one more invocation of the same RPC, whose
\* request is the first one with its session handle set to the new session's.
C1_RetryOnce ==
  \A c \in Clients :
    LET s == cl[c]
    IN  /\ Cardinality(FnAt(s)) <= 2
        /\ (Completed(s) /\ ~IsNone(s.first) /\ NamesInvalidSession(The(s.first))) =>
             \E i \in FnAt(s) :
               /\ \A j \in 1..(i - 1) : s.log[j].rpc = "OpenSession"
               /\ Len(s.log) = i + 2
               /\ s.log[i + 1].rpc = "OpenSession"
               /\ s.log[i + 2].rpc = s.log[i].rpc
               /\ s.log[i + 2].req =
                    [s.log[i].req EXCEPT !.hasSessionHandle = TRUE,
                                         !.sessionHandle = Some(The(s.openRes).sessionHandle)]
               /\ The(s.openRes).sessionHandle.sessionId.secret = Len(sessions)

\* C1's case: on a client's first call the first answer named an invalid
\* session in capitals, the retry was answered with an error too, and the log
\* holds OpenSession, the RPC, OpenSession, the RPC.
C1_Witness ==
  \E c \in Clients :
    LET s == cl[c]
    IN  /\ s.pc = "done" /\ ~IsNone(s.res) /\ ~IsNone(s.first)
        /\ The(s.first) = [statusCode |-> ERROR_STATUS, errorMessage |-> Some(MsgInvalidSessionUpper)]
        /\ The(s.res).status.statusCode = ERROR_STATUS
        /\ Len(s.log) = 4

\* C2 (as amended): when the retried RPC is answered with a status outside the
\* accepted codes, the call issues nothing more (one OpenSession and one
\* invocation after the first, and the retry is the last RPC of the call); with
\* status validation enabled it raises QueryServerException and returns
\* nothing, and with status=None it returns the failed response.
C2_RetryFailurePropagates ==
  \A c \in Clients :
    LET s == cl[c]
    IN  (Completed(s) /\ Cardinality(FnAt(s)) >= 2
           /\ The(s.res).status.statusCode \notin AcceptedCodes) =>
          /\ Cardinality(FnAt(s)) = 2
          /\ s.log[Len(s.log)].rpc = s.req.fn
          /\ Cardinality({i \in OpenAt(s) : \E j \in FnAt(s) : j < i}) = 1
          /\ IF IsNone(s.status) THEN CallReturned(s) ELSE CallRaised(s)

\* C2's case: the retry was answered with a second stale-session error and the
\* call, made with status validation, raised.
C2_Witness ==
  \E c \in Clients :
    LET s == cl[c]
    IN  /\ Completed(s) /\ Cardinality(FnAt(s)) = 2
        /\ NamesInvalidSession(The(s.res).status)
        /\ ~IsNone(s.status)
        /\ CallRaised(s)

\* C2 as stated: whenever the retried RPC is answered ERROR_STATUS, the call
\* raises QueryServerException and does not return the response.
C2_Original ==
  \A c \in Clients :
    LET s == cl[c]
    IN  (Completed(s) /\ Cardinality(FnAt(s)) >= 2
           /\ The(s.res).status.statusCode = ERROR_STATUS) =>
          CallRaised(s)

\* C3: with status validation a call returns its final response exactly when
\* the response's code is SUCCESS, SUCCESS_WITH_INFO or STILL_EXECUTING and
\* raises QueryServerException for every other code; with status=None it
\* returns the final response whatever the code.
C3_StatusValidation ==
  \A c \in Clients :
    LET s == cl[c]
    IN  Completed(s) =>
          IF IsNone(s.status) THEN CallReturned(s)
          ELSE IF The(s.res).status.statusCode \in AcceptedCodes THEN CallReturned(s)
          ELSE CallRaised(s)

\* C3's case: a call made with status=None has returned a response whose code
\* is ERROR_STATUS.
C3_Witness ==
  \E c \in Clients :
    LET s == cl[c]
    IN  /\ s.pc = "done" /\ s.outcome = "return" /\ IsNone(s.status)
        /\ ~IsNone(s.res) /\ s.ret = s.res
        /\ The(s.res).status.statusCode = ERROR_STATUS

\* the store holds a record for the key of client state s
Holds(s) == \E i \in 1..Len(store) : SameKey(store[i], s.user, s.server_name)

NoStale == \A c \in Clients : ~cl[c].staleSeen

\* the sessions the server has opened for a key
OpenedFor(user, server_name) ==
  {h \in 1..Len(sessions) : sessions[h] = <<user, server_name>>}

\* C4: a session is determined before the RPC is invoked; OpenSession precedes
\* the first invocation exactly when the store holds no session for the key;
\* and as long as no response reports a stale session the server has opened
\* one session in all, the first call opened it, and every request with a
\* session handle field carries that session's handle.
C4_OneSessionWithoutStale ==
  \A c \in Clients :
    LET s == cl[c]
    IN  /\ s.pc = "open" => ~Holds(s)
        /\ (s.pc = "invoke" /\ s.log = <<>>) => Holds(s)
        /\ FnAt(s) # {} => ~IsNone(s.session)
        /\ NoStale =>
             /\ Len(sessions) <= 1
             /\ s.opsDone >= 2 => OpenAt(s) = {}
             /\ \A i \in FnAt(s) :
                  /\ Len(sessions) = 1
                  /\ s.log[i].req.hasSessionHandle =>
                       s.log[i].req.sessionHandle = Some(OpenSessionResp(1).sessionHandle)

\* C4's case: a client's third call, with no stale response so far, has sent
\* its request with the handle of the only session and has ended.
C4_Witness ==
  \E c \in Clients :
    LET s == cl[c]
    IN  /\ s.opsDone = 3 /\ s.pc = "done" /\ NoStale
        /\ Len(sessions) = 1
        /\ Len(s.log) = 1
        /\ s.log[1].req.sessionHandle = Some(OpenSessionResp(1).sessionHandle)

\* C5: the store holds at most one record for each (user, service).
C5_OneRecordPerKey ==
  \A u \in Users, sn \in ServerNames :
    Cardinality({i \in 1..Len(store) : SameKey(store[i], u, sn)}) <= 1

\* C5's case: after a stale-session renewal the server has opened several
\* sessions for a client's key and the store holds one record for it.
C5_Witness ==
  \E c \in Clients :
    LET s == cl[c]
    IN  /\ s.staleSeen /\ s.pc = "done"
        /\ Cardinality(OpenedFor(s.user, s.server_name)) >= 3
        /\ Cardinality({i \in 1..Len(store) : SameKey(store[i], s.user, s.server_name)}) = 1

\* C6: the session the store returns for a key is the one whose open_session
\* completed last; and without any stale response the sessions opened for a
\* key are at most as many as the clients of that key (each opened one because
\* its lookup found none).
C6_LastWriteWins ==
  \A u \in Users, sn \in ServerNames :
    /\ ~IsNone(lastOpened[<<u, sn>>]) =>
         /\ ~IsNone(get_session(store, u, sn))
         /\ get_handle(The(get_session(store, u, sn))) = The(lastOpened[<<u, sn>>])
    /\ NoStale =>
         Cardinality(OpenedFor(u, sn)) <=
           Cardinality({c \in Clients : cl[c].user = u /\ cl[c].server_name = sn})

\* C6's case: two clients of one key are both in their first call, each found
\* no session and opened one, so the server holds two sessions for the key;
\* the store returns the first of them, persisted last.
C6_Witness ==
  /\ cl["c1"].user = cl["c2"].user /\ cl["c1"].server_name = cl["c2"].server_name
  /\ NoStale
  /\ \A c \in Clients : cl[c].opsDone = 1 /\ cl[c].pc = "invoke" /\ ~cl[c].found
  /\ Cardinality(OpenedFor(cl["c1"].user, cl["c1"].server_name)) = 2
  /\ get_handle(The(get_session(store, cl["c1"].user, cl["c1"].server_name)))
       = OpenSessionResp(1).sessionHandle

\* the operation of client state s has returned a result table
TableReturned(s, names) ==
  s.op.name \in names /\ s.pc = "done" /\ s.outcome = "return" /\ ~IsNone(s.dt)

\* the rows of the page the last FetchResults of s returned
FetchedRows(s) == The(The(s.results).results).rows

\* what a row of a user's statement decodes to
DecodedRow(row) ==
  IF row = RowA THEN <<Some(<<"7">>), Some(<<"a", "b">>)>>
  ELSE <<None, Some(<<"T", "r", "u", "e">>)>>

DecodedRows(rows) == [i \in 1..Len(rows) |-> DecodedRow(rows[i])]

\* C7: the has_more of a table returned by fetch_data is true exactly when the
\* fetched page holds at least one row, whatever hasMoreRows the server sent.
C7_HasMoreIffRows ==
  \A c \in Clients :
    LET s == cl[c]
    IN  TableReturned(s, {"fetch_data"}) =>
          (The(s.dt).has_more <=> Len(FetchedRows(s)) >= 1)

\* C7's case: fetch_data fetched a page of no rows that the server sent with
\* hasMoreRows true, and the table's has_more is false.
C7_Witness ==
  \E c \in Clients :
    LET s == cl[c]
    IN  /\ TableReturned(s, {"fetch_data"})
        /\ FetchedRows(s) = <<>>
        /\ The(s.results).hasMoreRows
        /\ ~The(s.dt).has_more

\* C8: the first traversal of rows() yields the rows of the fetched page
\* decoded, each once, in wire order, taking them out of the table as it goes;
\* once a traversal has run to its end the table holds no rows and every
\* further traversal yields nothing.
C8_SinglePass ==
  \A c \in Clients :
    LET s == cl[c]
        page == FetchedRows(s)
        left == The(s.dt).row_set.rows
        n == Len(s.yielded)
    IN  TableReturned(s, {"fetch_data", "execute_query_statement"}) =>
          /\ s.traversals = 0 =>
               /\ n <= Len(page)
               /\ s.yielded = DecodedRows(SubSeq(page, 1, n))
               /\ left = SubSeq(page, n + 1, Len(page))
          /\ (s.traversals = 1 /\ ~s.iterating) => s.yielded = DecodedRows(page)
          /\ s.traversals >= 1 => left = <<>>
          /\ (s.traversals >= 2 \/ (s.traversals = 1 /\ s.iterating)) => s.yielded = <<>>

\* C8's case: a table built from a page of two different rows has been
\* traversed to its end twice, and the second traversal yielded nothing.
C8_Witness ==
  \E c \in Clients :
    LET s == cl[c]
    IN  /\ TableReturned(s, {"fetch_data", "execute_query_statement"})
        /\ Len(FetchedRows(s)) = 2
        /\ FetchedRows(s)[1] # FetchedRows(s)[2]
        /\ s.traversals = 2 /\ ~s.iterating
        /\ s.yielded = <<>>

\* C9 as stated: when the GetTables lookup of get_table returned no rows,
\* get_table raises NoSuchObjectException.
C9_NoRowsRaisesNoSuchObject ==
  \A c \in Clients :
    LET s == cl[c]
    IN  (s.op.name = "get_table" /\ s.pc = "done" /\ ~IsNone(s.table_results)
           /\ The(The(s.table_results).results).rows = <<>>) =>
          s.outcome = "NoSuchObjectException"

\* the value of the partition a row of SHOW PARTITIONS stands for
PartitionValue(row) == IF row = RowP1 THEN <<"1">> ELSE <<"2">>

\* C10 as stated: get_partitions returns the last min(n, max_parts) of the n
\* partitions fetched, in their order.
C10_LastMaxParts ==
  \A c \in Clients :
    LET s == cl[c]
        page == FetchedRows(s)
        n == Len(page)
        k == Min2(n, s.op.max_parts)
    IN  (s.op.name = "get_partitions" /\ s.pc = "done" /\ s.outcome = "return") =>
          /\ Len(The(s.ret)) = k
          /\ \A i \in 1..k : The(s.ret)[i].values = <<PartitionValue(page[n - k + i])>>

\* the catalog column that names the database, per service
DatabaseColumn(server_name) ==
  IF server_name = "impala" THEN "TABLE_SCHEM" ELSE "TABLE_SCHEMA"

\* the database a row of GetSchemas names
DatabaseName(row) == IF row = RowS1 THEN <<"d", "b", "1">> ELSE <<"d", "b", "2">>

\* the schema the last GetResultSetMetadata of s returned
FetchedSchema(s) == The(The(s.schema).schema)

Ended(s, name) == s.op.name = name /\ s.pc = "done"

\* C11: get_databases returns one dict per fetched row whose only key is
\* TABLE_SCHEM on service 'impala' and TABLE_SCHEMA on every other service, its
\* value the row's value in the schema column of that name; the facade reads
\* the same key, so it never ends with a KeyError, and it returns the
\* database names of the fetched rows in order.  (Either ends with an
\* IndexError only when the fetched schema has no column of that name.)
C11_SameDatabaseColumn ==
  \A c \in Clients :
    LET s == cl[c]
        column == DatabaseColumn(s.server_name)
        page == FetchedRows(s)
    IN  /\ (Ended(s, "get_databases") /\ s.outcome = "return") =>
             /\ Len(The(s.ret)) = Len(page)
             /\ \A i \in 1..Len(page) :
                  /\ DOMAIN The(s.ret)[i] = {column}
                  /\ The(s.ret)[i][column] = Some(DatabaseName(page[i]))
             /\ page # <<>> => FetchedSchema(s).columns[1].columnName = column
        /\ Ended(s, "facade_get_databases") =>
             /\ s.outcome # "KeyError"
             /\ s.outcome = "return" =>
                  /\ The(s.ret) = [i \in 1..Len(page) |-> Some(DatabaseName(page[i]))]
                  /\ page # <<>> => FetchedSchema(s).columns[1].columnName = column
             /\ s.outcome = "IndexError" =>
                  /\ page # <<>>
                  /\ FetchedSchema(s).columns[1].columnName # column

\* C11's case: on service 'impala' the facade has returned the names of two
\* databases, read from the column TABLE_SCHEM.
C11_Witness ==
  \E c \in Clients :
    LET s == cl[c]
    IN  /\ Ended(s, "facade_get_databases") /\ s.outcome = "return"
        /\ s.server_name = "impala"
        /\ FetchedSchema(s).columns[1].columnName = "TABLE_SCHEM"
        /\ The(s.ret) = <<Some(<<"d", "b", "1">>), Some(<<"d", "b", "2">>)>>

\* the calls of the operation of s that execute statement stmt
StmtAt(s, stmt) ==
  {i \in 1..Len(s.oplog) :
     s.oplog[i].rpc = "ExecuteStatement" /\ s.oplog[i].req.statement = stmt}

\* the calls of the operation of s that are of RPC rpc
RpcAt(s, rpc) == {i \in 1..Len(s.oplog) : s.oplog[i].rpc = rpc}

ModeStatements == {SET_TRUE, SET_FALSE}

\* C12: on 'beeswax' execute_query_statement sends the user's statement only
\* after the execute_statement of 'SET hive.server2.blocking.query=true' has
\* returned (its ExecuteStatement, its FetchResults and, with a result set,
\* its GetResultSetMetadata); a run that returns has then executed the user's
\* statement once and fetched one page after it.  On every other service no
\* call and no RPC of any operation carries a 'SET
\* hive.server2.blocking.query' statement.
C12_BlockingSetFirst ==
  \A c \in Clients :
    LET s == cl[c]
        n == Len(s.oplog)
        user == StmtAt(s, USER_STMT)
    IN  /\ (s.op.name = "execute_query_statement" /\ s.server_name = "beeswax") =>
             /\ Cardinality(user) <= 1
             /\ \A j \in user :
                  /\ j \in {3, 4}
                  /\ StmtAt(s, SET_TRUE) = {1}
                  /\ s.oplog[2].rpc = "FetchResults"
                  /\ j = 4 => s.oplog[3].rpc = "GetResultSetMetadata"
                  /\ (s.pc = "done" /\ s.outcome = "return") =>
                       /\ n \in {j + 1, j + 2}
                       /\ s.oplog[j + 1].rpc = "FetchResults"
                       /\ n = j + 2 => s.oplog[n].rpc = "GetResultSetMetadata"
             /\ (s.pc = "done" /\ s.outcome = "return") => user # {}
        /\ s.server_name # "beeswax" =>
             /\ \A i \in 1..n : s.oplog[i].req.statement \notin ModeStatements
             /\ \A i \in 1..Len(s.log) : s.log[i].req.statement \notin ModeStatements

\* C12's case: on 'beeswax' execute_query_statement has returned a table of
\* two rows after six calls: the SET, its fetch and its metadata, then the
\* user's statement, its fetch and its metadata.
C12_Witness ==
  \E c \in Clients :
    LET s == cl[c]
    IN  /\ Ended(s, "execute_query_statement") /\ s.outcome = "return"
        /\ s.server_name = "beeswax"
        /\ Len(s.oplog) = 6
        /\ StmtAt(s, USER_STMT) = {4}
        /\ Len(The(s.dt).row_set.rows) = 2

\* the server's session the store holds for the key of client state s
StoredSession(s) ==
  get_handle(The(get_session(store, s.user, s.server_name))).sessionId.secret

\* the statements execute_async_query sends, and their order: the resources
\* only with statement 0 and before the user's statement, and on 'beeswax'
\* 'SET hive.server2.blocking.query=false' as the last statement before it
C13_SentOrder ==
  \A c \in Clients :
    LET s == cl[c]
        n == Len(s.oplog)
        user == StmtAt(s, USER_STMT)
        before(j) == {i \in 1..(j - 1) : s.oplog[i].rpc = "ExecuteStatement"}
    IN  s.op.name = "execute_async_query" =>
          /\ s.op.statement # 0 => StmtAt(s, CONF_STMT) = {}
          /\ (s.op.statement = 0 /\ user # {}) =>
               Cardinality(StmtAt(s, CONF_STMT)) = Len(s.op.configuration)
          /\ \A j \in user :
               /\ j = n
               /\ \A i \in StmtAt(s, CONF_STMT) : i < j
               /\ s.server_name = "beeswax" =>
                    /\ before(j) # {}
                    /\ \A i \in before(j) :
                         (\A k \in before(j) : k <= i) => s.oplog[i].req.statement = SET_FALSE

\* C13 as stated: execute_async_query sends the resources and the mode
\* settings in that order, so that on 'beeswax' the user's statement is
\* executed by the server in a session whose mode is asynchronous
\* (hive.server2.blocking.query=false), and when the call has returned the
\* session of the client still has that mode and the configuration applied.
C13_AsyncLeavesSettings ==
  /\ C13_SentOrder
  /\ \A c \in Clients :
       LET s == cl[c]
       IN  (Ended(s, "execute_async_query") /\ s.outcome = "return"
              /\ s.server_name = "beeswax") =>
             /\ The(s.ran).statement = USER_STMT
             /\ The(s.ran).blocking = "false"
             /\ settings[StoredSession(s)].blocking = "false"
             /\ (s.op.statement = 0 /\ s.op.configuration # <<>>) =>
                  CONF_STMT \in settings[StoredSession(s)].configuration

\* C14: the facade's fetch makes one fetch_data: its first call is the one
\* FetchResults call of the operation, and that request (in the retry after a
\* stale session too) asks for FETCH_FIRST exactly when start_over is true
\* and the service is not 'impala', and for FETCH_NEXT in every other case.
C14_FetchOrientation ==
  \A c \in Clients :
    LET s == cl[c]
        first == s.op.start_over /\ s.server_name # "impala"
        orientation == Some(IF first THEN FETCH_FIRST ELSE FETCH_NEXT)
    IN  (s.op.name = "facade_fetch" /\ s.opsDone >= 1) =>
          /\ RpcAt(s, "FetchResults") = {1}
          /\ s.oplog[1].req.orientation = orientation
          /\ s.oplog[1].req.operationHandle = s.operationHandle
          /\ \A i \in 1..Len(s.log) :
               s.log[i].rpc = "FetchResults" => s.log[i].req.orientation = orientation
          /\ (s.pc = "done" /\ s.outcome = "return") => ~IsNone(s.dt)

\* C14's case: on 'beeswax' a fetch with start_over has returned after its
\* FetchResults was sent twice (a stale session in between), both times
\* asking for FETCH_FIRST.
C14_Witness ==
  \E c \in Clients :
    LET s == cl[c]
    IN  /\ Ended(s, "facade_fetch") /\ s.outcome = "return"
        /\ s.server_name = "beeswax" /\ s.op.start_over
        /\ s.oplog[1].req.orientation = Some(FETCH_FIRST)
        /\ \E i, j \in 1..Len(s.log) :
             /\ i < j
             /\ s.log[i].rpc = "FetchResults" /\ s.log[j].rpc = "FetchResults"
             /\ s.log[j].req.orientation = Some(FETCH_FIRST)

\* what close_session leaves: in every state of the operation the request, once
\* built, carries the handle of the session the store holds; a run that has
\* returned has issued one RPC, that CloseSession, and returned its response;
\* and the store still returns the record the operation looked up.
C15_Closed ==
  \A c \in Clients :
    LET s == cl[c]
        stored == get_session(store, s.user, s.server_name)
    IN  s.op.name = "close_session" =>
          /\ s.pc = "closing" =>
               /\ ~IsNone(stored)
               /\ s.req.sessionHandle = Some(get_handle(The(stored)))
               /\ s.log = <<>>
          /\ (s.pc = "done" /\ s.outcome = "return") =>
               /\ s.log = <<Sent("CloseSession", s.req)>>
               /\ s.oplog = s.log
               /\ ~IsNone(stored) /\ stored = s.session
               /\ s.req.sessionHandle = Some(get_handle(The(stored)))
               /\ s.ret = s.res
          /\ (s.pc = "done" /\ s.outcome # "return") =>
               /\ s.outcome = "AttributeError"
               /\ IsNone(stored)
               /\ s.log = <<>>

\* C15: close_session, run with a session stored for (user, service), issues
\* exactly one RPC, the CloseSession that carries the stored session's handle,
\* and no OpenSession; no step of it changes the store or opens a session on
\* the server, so a lookup afterwards returns the same record.  (With no
\* session stored it issues no RPC and ends with an AttributeError.)
C15_CloseKeepsRecord ==
  /\ []C15_Closed
  /\ [][\A c \in Clients :
         cl'[c].op.name = "close_session" => (store' = store /\ sessions' = sessions)]_vars

\* C15's case: close_session has returned the server's SUCCESS_STATUS to its
\* CloseSession, the server has closed the session, and the store still holds
\* the record of that session.
C15_Witness ==
  \E c \in Clients :
    LET s == cl[c]
    IN  /\ Ended(s, "close_session") /\ s.outcome = "return"
        /\ The(s.res).status.statusCode = SUCCESS_STATUS
        /\ settings[StoredSession(s)].closed
        /\ SessionOf(s.req) = StoredSession(s)

\* the operations made of several RPCs
Composite ==
  {"execute_statement", "execute_query_statement", "get_databases", "get_tables",
   "get_table", "get_partitions", "execute_async_query"}

\* the state of a composite operation one of whose calls has ended with a
\* status outside the accepted codes: the operation has raised
\* QueryServerException there, has nothing left to do and has no result
C16_Raised ==
  \A c \in Clients :
    LET s == cl[c]
    IN  s.op.name \in Composite =>
          /\ (Completed(s) /\ The(s.res).status.statusCode \notin AcceptedCodes) =>
               /\ s.pc = "done" /\ s.outcome = "QueryServerException"
               /\ s.todo = <<>>
               /\ IsNone(s.ret) /\ IsNone(s.dt)
               /\ s.oplog[Len(s.oplog)].rpc = s.req.fn
               /\ s.log[Len(s.log)] = Sent(s.req.fn, s.req)
               /\ Cardinality(FnAt(s)) <= 2
          /\ (s.pc = "done" /\ s.outcome = "QueryServerException") =>
               /\ ~IsNone(s.res)
               /\ The(s.res).status.statusCode \notin AcceptedCodes

\* C16: when a call of a composite operation ends (after its one retry, if
\* any) with a status outside SUCCESS, SUCCESS_WITH_INFO and STILL_EXECUTING,
\* the operation raises QueryServerException at that call and returns
\* nothing, and from then on it makes no call and issues no RPC.
C16_ErrorStopsOperation ==
  /\ []C16_Raised
  /\ [][\A c \in Clients :
         (cl[c].op.name \in Composite /\ cl[c].pc = "done"
            /\ cl[c].outcome = "QueryServerException") =>
           \/ cl'[c].opsDone = cl[c].opsDone + 1
           \/ (cl'[c].oplog = cl[c].oplog /\ cl'[c].log = cl[c].log
                 /\ cl'[c].outcome = cl[c].outcome)]_vars

\* C16's case: get_partitions has raised at the ExecuteStatement of SHOW
\* PARTITIONS, whose retry after a stale session was answered ERROR_STATUS,
\* after every call before it had returned; no fetch of it was made.
C16_Witness ==
  \E c \in Clients :
    LET s == cl[c]
    IN  /\ Ended(s, "get_partitions") /\ s.outcome = "QueryServerException"
        /\ s.oplog[Len(s.oplog)].req.statement = SHOW_PARTITIONS
        /\ Cardinality(FnAt(s)) = 2
        /\ IsNone(s.ret)

\* C17 as stated: get_operation_status makes one GetOperationStatus call and
\* returns the server's final response whatever its status code; it never
\* raises QueryServerException.
C17_StatusPassThrough ==
  \A c \in Clients :
    LET s == cl[c]
    IN  s.op.name = "get_operation_status" =>
          /\ \A i \in 1..Len(s.oplog) : i = 1 /\ s.oplog[i].rpc = "GetOperationStatus"
          /\ s.pc = "done" =>
               /\ s.outcome = "return"
               /\ s.ret = s.res

\* the variants in the order the protocol's tagged union is read in
VariantOrder ==
  <<"boolVal", "byteVal", "i16Val", "i32Val", "i64Val", "doubleVal", "stringVal">>

Populated(cv) == {i \in 1..Len(VariantOrder) : ~IsNone(cv[VariantOrder[i]])}

\* C18: val returns None when no variant of the value is populated, and
\* otherwise the payload of the populated variant that comes first in the
\* order bool, byte, i16, i32, i64, double, string (the one populated variant
\* when there is exactly one).
C18_FirstPopulatedVariant ==
  LET cv == cl.column_value
      populated == Populated(cv)
      first == CHOOSE i \in populated : \A j \in populated : i <= j
  IN  cl.pc = "decoded" =>
        IF populated = {} THEN cl.out = None
        ELSE cl.out = Some(The(cv[VariantOrder[first]]).value)

\* C18's case: a value with the i32, i64 and string variants populated has
\* been decoded to the payload of the i32 variant.
C18_Witness ==
  /\ cl.pc = "decoded"
  /\ Populated(cl.column_value) = {4, 5, 7}
  /\ cl.out = Some(<<"i32", "1">>)

\* C19: for a schema and a row of equal column count, col(name) of a name
\* the schema has is the decoded value of the row at the index of the first
\* schema column of that name, the value positional lookup in fields() gives;
\* of a name the schema has not it is an error (IndexError) and no value.
C19_ColByName ==
  LET columns == cl.schema.columns
      hits == {i \in 1..Len(columns) : columns[i].columnName = cl.colName}
      first == CHOOSE i \in hits : \A j \in hits : i <= j
  IN  (cl.pc = "looked up" /\ Len(columns) = Len(cl.row.colVals)) =>
        IF hits # {}
        THEN cl.out = [exc |-> "", value |-> fields(cl.row)[first]]
        ELSE cl.out = [exc |-> "IndexError", value |-> None]

\* C19's case: the schema names two columns "a" whose values in the row
\* differ, and col("a") has returned the value of the first.
C19_Witness ==
  /\ cl.pc = "looked up"
  /\ Len(cl.schema.columns) = 3 /\ Len(cl.row.colVals) = 3
  /\ cl.colName = "a"
  /\ cl.schema.columns[2].columnName = "a" /\ cl.schema.columns[3].columnName = "a"
  /\ cl.schema.columns[1].columnName = "b"
  /\ cl.row.colVals[2] = I32(<<"1">>) /\ cl.row.colVals[3] = Str(<<"x">>)
  /\ cl.out = [exc |-> "", value |-> Some(<<"1">>)]

\* the statements the client means to run synchronously
SyncStatements == {USER_STMT, DESCRIBE, SHOW_PARTITIONS}

\* C20 as stated: on 'beeswax', whenever the server has executed the
\* statement of execute_query_statement, the DESCRIBE EXTENDED of get_table or
\* the SHOW PARTITIONS of get_partitions, the session it executed it in had
\* hive.server2.blocking.query set to true at that moment.
C20_SyncRunsBlocking ==
  \A c \in Clients :
    LET s == cl[c]
    IN  (s.server_name = "beeswax"
           /\ s.op.name \in {"execute_query_statement", "get_table", "get_partitions"}
           /\ ~IsNone(s.ran) /\ The(s.ran).statement \in SyncStatements) =>
          The(s.ran).blocking = "true"

\* the handle of the server's session h
HandleOf(h) == OpenSessionResp(h).sessionHandle

\* client state s is in, or at the end of, the first call of self.call it has
\* begun since its close_session closed a session
NextCall(s) ==
  ~IsNone(s.closed) /\ s.since = 1 /\ s.op.name # "close_session" /\ s.log # <<>>

\* the first call after the close is invoked with the closed session's handle:
\* the store has kept the record, so no session is opened before it
C21_SendsClosed(s) ==
  /\ (~IsNone(s.closed) /\ IsNone(s.renewed)) => StoredSession(s) = The(s.closed)
  /\ NextCall(s) =>
       /\ s.found
       /\ s.log[1].rpc = s.req.fn
       /\ HasSessionHandleField(s.req.fn) =>
            s.log[1].req.sessionHandle = Some(HandleOf(The(s.closed)))

\* the first answer to that call named an invalid session and the call has
\* ended: it has opened one session, the last the server opened, and invoked
\* the RPC once more with that session's handle; the store holds the new session
C21_RenewedOnce(s) ==
  (NextCall(s) /\ Completed(s) /\ NamesInvalidSession(The(s.first))) =>
    /\ Len(s.log) = 3
    /\ s.log[2].rpc = "OpenSession"
    /\ s.log[3].rpc = s.log[1].rpc
    /\ s.renewed = Some(Len(sessions))
    /\ The(s.renewed) # The(s.closed)
    /\ s.log[3].req = [s.log[1].req EXCEPT !.hasSessionHandle = TRUE,
                                           !.sessionHandle = Some(HandleOf(The(s.renewed)))]
    /\ StoredSession(s) = The(s.renewed)

\* the calls after a renewal: the store holds the session opened last, which
\* the client has not closed; a call finds it, is bound to it, and opens no
\* session unless its own first answer names an invalid session
C21_Subsequent(s) ==
  (~IsNone(s.closed) /\ ~IsNone(s.renewed)) =>
    /\ StoredSession(s) = The(s.renewed)
    /\ ~settings[The(s.renewed)].closed
    /\ (s.since >= 2 /\ s.pc = "invoke") =>
         /\ s.found /\ s.log = <<>>
         /\ HasSessionHandleField(s.req.fn) =>
              s.req.sessionHandle = Some(HandleOf(The(s.renewed)))
    /\ (s.since >= 2 /\ s.op.name # "close_session" /\ s.log # <<>>) =>
         /\ s.log[1].rpc = s.req.fn
         /\ OpenAt(s) # {} => NamesInvalidSession(The(s.first))

\* C21 as stated: after close_session the next call sends the closed
\* session's handle; answered with an invalid-session error it opens one new
\* session, retries once and returns the retried response; from then on the
\* store's session is the new one and later calls open no session of their own.
C21_Original ==
  \A c \in Clients :
    LET s == cl[c]
    IN  /\ C21_SendsClosed(s)
        /\ NextCall(s) => s.log[1].req.sessionHandle = Some(HandleOf(The(s.closed)))
        /\ C21_RenewedOnce(s)
        /\ (NextCall(s) /\ Completed(s) /\ NamesInvalidSession(The(s.first))) =>
             CallReturned(s)
        /\ C21_Subsequent(s)

\* C21 (as amended): after close_session has closed the stored session, the
\* store still holds its record, and the next call is invoked first without
\* an OpenSession, with the closed session's handle if its request has a
\* session handle field (a request about an operation carries none).  If that
\* invocation is answered ERROR_STATUS with an invalid-session message, the
\* call opens exactly one new session and invokes the RPC exactly once more,
\* with the new session's handle; it returns the retried response if the
\* status check accepts it and raises QueryServerException if it does not.
\* From the renewal on the store's session for (user, service) is the new
\* one, and a later call is bound to it and opens a session only if its own
\* first answer names an invalid session.
C21_RenewAfterClose ==
  \A c \in Clients :
    LET s == cl[c]
    IN  /\ C21_SendsClosed(s)
        /\ (NextCall(s) /\ ~HasSessionHandleField(s.req.fn)) =>
             IsNone(s.log[1].req.sessionHandle)
        /\ C21_RenewedOnce(s)
        /\ (NextCall(s) /\ Completed(s) /\ NamesInvalidSession(The(s.first))) =>
             IF BadStatus(s.status, The(s.res)) THEN CallRaised(s) ELSE CallReturned(s)
        /\ C21_Subsequent(s)

\* C21's case: close_session has closed the stored session; the GetTables
\* that followed was sent with the closed handle, answered with an invalid
\* session, retried in a new session and returned; the FetchResults after it
\* has returned from its first invocation, no session opened.
C21_Witness ==
  \E c \in Clients :
    LET s == cl[c]
    IN  /\ ~IsNone(s.closed) /\ ~IsNone(s.renewed)
        /\ settings[The(s.closed)].closed
        /\ s.op.name = "get_tables" /\ s.since = 2 /\ s.pc = "returned"
        /\ s.req.fn = "FetchResults" /\ Len(s.log) = 1
        /\ Len(s.oplog) = 2
        /\ s.oplog[1].rpc = "GetTables"
        /\ StoredSession(s) = The(s.renewed)

====
